---- MODULE Spec2Model ----
(***************************************************************************)
(* The bucket output builder (BucketOutputIterator) and the snapshot read  *)
(* path (BucketSnapshot, SearchableBucketListSnapshot) of stellar-core.    *)
(***************************************************************************)
EXTENDS Integers, Naturals, Sequences, FiniteSets, Bags, TLC

(***************************************************************************)
(* Bounds of the model.                                                    *)
(***************************************************************************)
\* Largest ledger key the caller of the output builder uses.
MaxKey == 2
\* Number of put calls one builder receives from its caller.
MaxPuts == 3

(***************************************************************************)
(* Protocol versions.                                                      *)
(***************************************************************************)
FIRST_PROTOCOL_SUPPORTING_INITENTRY_AND_METAENTRY == 11
FIRST_PROTOCOL_CONVERTING_BOTTOM_LEVEL_LIVE_TO_INIT == 23
FIRST_PROTOCOL_SUPPORTING_PERSISTENT_EVICTION == 23

protocolVersionStartsFrom(v, from) == v >= from

\* One ledger version on each side of every threshold.
LedgerVersions == {10, 11, 22, 23}

(***************************************************************************)
(* Entries.  A ledger key is a number, keys being numbered in their sort   *)
(* order; key 1 is of a classic type, the larger ones are contract data.   *)
(***************************************************************************)
Keys == 1 .. MaxKey
\* The payloads of entries: neither the builder nor the readers look into one.
Vals == {"a", "b"}

BucketTs == {"LiveBucket", "HotArchiveBucket"}

NoEntry == [type |-> "NONE", key |-> 0, val |-> ""]

LiveE(k, v) == [type |-> "LIVEENTRY", key |-> k, val |-> v]
InitE(k, v) == [type |-> "INITENTRY", key |-> k, val |-> v]
DeadE(k) == [type |-> "DEADENTRY", key |-> k, val |-> ""]
MetaE(lv) == [type |-> "METAENTRY", key |-> 0, val |-> ToString(lv)]

ArchivedE(k, v) == [type |-> "HOT_ARCHIVE_ARCHIVED", key |-> k, val |-> v]
ArchiveLiveE(k) == [type |-> "HOT_ARCHIVE_LIVE", key |-> k, val |-> ""]
ArchiveMetaE(lv) == [type |-> "HOT_ARCHIVE_METAENTRY", key |-> 0, val |-> ToString(lv)]

MetaTypes == {"METAENTRY", "HOT_ARCHIVE_METAENTRY"}

\* The XDR discriminant of each entry type.
TypeCode(t) ==
    CASE t = "METAENTRY" -> -1
      [] t = "LIVEENTRY" -> 0
      [] t = "DEADENTRY" -> 1
      [] t = "INITENTRY" -> 2
      [] t = "HOT_ARCHIVE_METAENTRY" -> -1
      [] t = "HOT_ARCHIVE_ARCHIVED" -> 0
      [] t = "HOT_ARCHIVE_LIVE" -> 1

isSorobanEntry(k) == k >= 2

isTombstoneEntry(T, e) ==
    IF T = "LiveBucket" THEN e.type = "DEADENTRY" ELSE e.type = "HOT_ARCHIVE_LIVE"

\* BucketEntryIdCmp: a meta entry sorts below every other entry, the others
\* sort by ledger key.
mCmp(a, b) ==
    IF a.type \in MetaTypes \/ b.type \in MetaTypes
    THEN TypeCode(a.type) < TypeCode(b.type)
    ELSE a.key < b.key

checkProtocolLegality(e, ledgerVersion) ==
    ~(/\ ~protocolVersionStartsFrom(ledgerVersion,
                                     FIRST_PROTOCOL_SUPPORTING_INITENTRY_AND_METAENTRY)
      /\ e.type \in {"INITENTRY", "METAENTRY"})

\* The serialised record: discriminant, then the body.
xdrBytes(e) ==
    IF e.type \in MetaTypes THEN <<TypeCode(e.type), e.val>>
    ELSE IF isTombstoneEntry("LiveBucket", e) \/ isTombstoneEntry("HotArchiveBucket", e)
    THEN <<TypeCode(e.type), e.key>>
    ELSE <<TypeCode(e.type), e.key, e.val>>

xdr_size(e) == 4 * Len(xdrBytes(e))

\* XDROutputFileStream::writeOne: a length prefix and the record go to the
\* file and to the hasher, and the byte count grows by both.
writeOne(b, e) ==
    [b EXCEPT !.mOut = Append(@, e),
              !.mHasher = @ \o <<xdr_size(e)>> \o xdrBytes(e),
              !.mBytesPut = @ + 4 + xdr_size(e)]

(***************************************************************************)
(* BucketOutputIterator.                                                   *)
(***************************************************************************)
MergeCounters0 ==
    [mOutputIteratorTombstoneElisions |-> 0,
     mOutputIteratorActualWrites |-> 0,
     mOutputIteratorLiveToInitRewrites |-> 0,
     mOutputIteratorBufferUpdates |-> 0]

PutResult(b, c, o) == [b |-> b, mc |-> c, outcome |-> o]

\* putBuffered flushing the buffered entry whatever its identity.
putBuffered_NoDedup(T, b, c, e) ==
    IF b.mBuf # NoEntry /\ mCmp(e, b.mBuf)
    THEN [b |-> b, mc |-> c, outcome |-> "aborted"]
    ELSE
      LET b1 == IF b.mBuf # NoEntry
                THEN [writeOne(b, b.mBuf) EXCEPT !.mObjectsPut = @ + 1]
                ELSE b
      IN  [b |-> [b1 EXCEPT !.mBuf = e],
           mc |-> [c EXCEPT !.mOutputIteratorBufferUpdates = @ + 1],
           outcome |-> "ok"]

\* putBuffered without the bottom-level rewrite.
putBuffered_NoRewrite(T, b, c, e) ==
    IF b.mBuf # NoEntry /\ mCmp(e, b.mBuf)
    THEN [b |-> b, mc |-> c, outcome |-> "aborted"]
    ELSE
      LET flush == b.mBuf # NoEntry /\ mCmp(b.mBuf, e)
          b1 == IF flush
                THEN [writeOne(b, b.mBuf) EXCEPT !.mObjectsPut = @ + 1]
                ELSE b
          c1 == IF flush
                THEN [c EXCEPT !.mOutputIteratorActualWrites = @ + 1]
                ELSE c
      IN  [b |-> [b1 EXCEPT !.mBuf = e],
           mc |-> [c1 EXCEPT !.mOutputIteratorBufferUpdates = @ + 1],
           outcome |-> "ok"]

\* putBuffered without the assertion on the order of its input.
putBuffered_NoOrderCheck(T, b, c, e) ==
    LET flush == b.mBuf # NoEntry /\ mCmp(b.mBuf, e)
        b1 == IF flush
              THEN [writeOne(b, b.mBuf) EXCEPT !.mObjectsPut = @ + 1]
              ELSE b
        c1 == IF flush
              THEN [c EXCEPT !.mOutputIteratorActualWrites = @ + 1]
              ELSE c
    IN  [b |-> [b1 EXCEPT !.mBuf = e],
         mc |-> [c1 EXCEPT !.mOutputIteratorBufferUpdates = @ + 1],
         outcome |-> "ok"]

\* Lines 139-187 of put: ordering, flush and the buffer update.
putBuffered(T, b, c, e) ==
    IF b.mBuf # NoEntry /\ mCmp(e, b.mBuf)
    THEN PutResult(b, c, "aborted")
    ELSE
      LET flush == b.mBuf # NoEntry /\ mCmp(b.mBuf, e)
          b1 == IF flush
                THEN [writeOne(b, b.mBuf) EXCEPT !.mObjectsPut = @ + 1]
                ELSE b
          c1 == IF flush
                THEN [c EXCEPT !.mOutputIteratorActualWrites = @ + 1]
                ELSE c
      IN  IF /\ T = "LiveBucket"
             /\ ~b.mKeepTombstoneEntries
             /\ e.type = "LIVEENTRY"
             /\ protocolVersionStartsFrom(b.mMeta,
                    FIRST_PROTOCOL_CONVERTING_BOTTOM_LEVEL_LIVE_TO_INIT)
          THEN PutResult([b1 EXCEPT !.mBuf = [e EXCEPT !.type = "INITENTRY"]],
                         [c1 EXCEPT !.mOutputIteratorLiveToInitRewrites = @ + 1,
                                    !.mOutputIteratorBufferUpdates = @ + 1],
                         "ok")
          ELSE PutResult([b1 EXCEPT !.mBuf = e],
                         [c1 EXCEPT !.mOutputIteratorBufferUpdates = @ + 1],
                         "ok")

\* putElided forgetting to count the elision.
putElided_NoCount(b, c) == [b |-> b, mc |-> c, outcome |-> "elided"]

\* putElided dropping the buffered entry with the tombstone.
putElided_DropBuffer(b, c) ==
    PutResult([b EXCEPT !.mBuf = NoEntry],
              [c EXCEPT !.mOutputIteratorTombstoneElisions = @ + 1], "elided")

\* Lines 92-96 and 132-136 of put.
putElided(b, c) ==
    PutResult(b, [c EXCEPT !.mOutputIteratorTombstoneElisions = @ + 1], "elided")

\* put accepting a meta entry after the header.
put_NoMetaCheck(T, b, c, e) ==
    IF T = "LiveBucket"
    THEN IF ~checkProtocolLegality(e, b.mMeta)
         THEN PutResult(b, c, "threw")
         ELSE IF ~b.mKeepTombstoneEntries /\ isTombstoneEntry(T, e)
         THEN putElided(b, c)
         ELSE putBuffered(T, b, c, e)
    ELSE IF e.type # "HOT_ARCHIVE_METAENTRY" /\ ~isSorobanEntry(e.key)
         THEN PutResult(b, c, "threw")
         ELSE IF ~b.mKeepTombstoneEntries /\ isTombstoneEntry(T, e)
         THEN putElided(b, c)
         ELSE putBuffered(T, b, c, e)

\* put dropping a bottom-level tombstone before validating it.
put_ElideFirst(T, b, c, e) ==
    IF ~b.mKeepTombstoneEntries /\ isTombstoneEntry(T, e)
    THEN putElided(b, c)
    ELSE IF T = "LiveBucket"
    THEN IF ~checkProtocolLegality(e, b.mMeta)
         THEN PutResult(b, c, "threw")
         ELSE IF e.type = "METAENTRY" /\ b.mPutMeta
         THEN PutResult(b, c, "threw")
         ELSE putBuffered(T, b, c, e)
    ELSE IF e.type = "HOT_ARCHIVE_METAENTRY" /\ b.mPutMeta
         THEN PutResult(b, c, "threw")
         ELSE IF e.type # "HOT_ARCHIVE_METAENTRY" /\ ~isSorobanEntry(e.key)
         THEN PutResult(b, c, "threw")
         ELSE putBuffered(T, b, c, e)

\* BucketOutputIterator::put.
put(T, b, c, e) ==
    IF T = "LiveBucket"
    THEN IF ~checkProtocolLegality(e, b.mMeta)
         THEN PutResult(b, c, "threw")
         ELSE IF e.type = "METAENTRY" /\ b.mPutMeta
         THEN PutResult(b, c, "threw")
         ELSE IF ~b.mKeepTombstoneEntries /\ isTombstoneEntry(T, e)
         THEN putElided(b, c)
         ELSE putBuffered(T, b, c, e)
    ELSE IF e.type = "HOT_ARCHIVE_METAENTRY" /\ b.mPutMeta
         THEN PutResult(b, c, "threw")
         ELSE IF e.type # "HOT_ARCHIVE_METAENTRY" /\ ~isSorobanEntry(e.key)
         THEN PutResult(b, c, "threw")
         ELSE IF ~b.mKeepTombstoneEntries /\ isTombstoneEntry(T, e)
         THEN putElided(b, c)
         ELSE putBuffered(T, b, c, e)

\* The members as the initialiser list leaves them.
NewIterator(name, keep, lv) ==
    [mFilename |-> name, mOut |-> <<>>, mBuf |-> NoEntry,
     mKeepTombstoneEntries |-> keep, mMeta |-> lv, mPutMeta |-> FALSE,
     mBytesPut |-> 0, mObjectsPut |-> 0, mHasher |-> <<>>]

\* The constructor can be completed: an archive builder of a version that has
\* meta entries requires persistent eviction.
CanConstruct(T, lv) ==
    \/ T = "LiveBucket"
    \/ ~protocolVersionStartsFrom(lv, FIRST_PROTOCOL_SUPPORTING_INITENTRY_AND_METAENTRY)
    \/ protocolVersionStartsFrom(lv, FIRST_PROTOCOL_SUPPORTING_PERSISTENT_EVICTION)

MetaOf(T, lv) == IF T = "LiveBucket" THEN MetaE(lv) ELSE ArchiveMetaE(lv)

\* The constructor writing the header without counting in the MergeCounters.
BucketOutputIterator_UncountedMeta(T, name, keep, lv, c) ==
    IF protocolVersionStartsFrom(lv, FIRST_PROTOCOL_SUPPORTING_INITENTRY_AND_METAENTRY)
    THEN LET r == put(T, NewIterator(name, keep, lv), c, MetaOf(T, lv))
         IN  [b |-> [r.b EXCEPT !.mPutMeta = TRUE], mc |-> c]
    ELSE [b |-> NewIterator(name, keep, lv), mc |-> c]

\* BucketOutputIterator::BucketOutputIterator, lines 24-72.
BucketOutputIterator(T, name, keep, lv, c) ==
    IF protocolVersionStartsFrom(lv, FIRST_PROTOCOL_SUPPORTING_INITENTRY_AND_METAENTRY)
    THEN LET r == put(T, NewIterator(name, keep, lv), c, MetaOf(T, lv))
         IN  [b |-> [r.b EXCEPT !.mPutMeta = TRUE], mc |-> r.mc]
    ELSE [b |-> NewIterator(name, keep, lv), mc |-> c]

\* What the bucket manager has been asked to do by getBucket calls.
Manager0 == [removed |-> {}, emptyNoted |-> <<>>, adopted |-> <<>>]

NoMergeKey == "none"
MergeKeys == {NoMergeKey, "mk"}
EmptyBucket == [empty |-> TRUE]

GetResult(b, m, r, o) == [b |-> b, mgr |-> m, ret |-> r, outcome |-> o]

\* flushBuf writing the last entry without handing it to the hasher.
flushBuf_NoHash(b) ==
    IF b.mBuf # NoEntry
    THEN [b EXCEPT !.mOut = Append(@, b.mBuf),
                   !.mBytesPut = @ + 4 + xdr_size(b.mBuf),
                   !.mObjectsPut = @ + 1,
                   !.mBuf = NoEntry]
    ELSE b

\* Lines 196-201 of getBucket: the buffered entry is written and dropped.
flushBuf(b) ==
    IF b.mBuf # NoEntry
    THEN [writeOne(b, b.mBuf) EXCEPT !.mObjectsPut = @ + 1, !.mBuf = NoEntry]
    ELSE b

\* getBucket treating a file that holds only the meta header as empty.
getBucket_MetaOnlyIsEmpty(b, m, mergeKey) ==
    LET b1 == flushBuf(b)
    IN  IF b1.mObjectsPut = 0 \/ (b1.mPutMeta /\ b1.mObjectsPut = 1)
        THEN [b |-> b1,
              mgr |-> [m EXCEPT !.removed = @ \cup {b1.mFilename},
                                !.emptyNoted = IF mergeKey # NoMergeKey
                                               THEN Append(@, mergeKey)
                                               ELSE @],
              ret |-> EmptyBucket, outcome |-> "ok"]
        ELSE [b |-> b1,
              mgr |-> [m EXCEPT !.adopted =
                          Append(@, [filename |-> b1.mFilename,
                                     hash |-> b1.mHasher,
                                     mergeKey |-> mergeKey])],
              ret |-> [empty |-> FALSE, hash |-> b1.mHasher],
              outcome |-> "ok"]

\* getBucket noting an empty merge output whether or not it has a merge key.
getBucket_NoteAlways(b, m, mergeKey) ==
    LET b1 == flushBuf(b)
    IN  IF b1.mObjectsPut = 0
        THEN GetResult(b1,
                       [m EXCEPT !.removed = @ \cup {b1.mFilename},
                                 !.emptyNoted = Append(@, mergeKey)],
                       EmptyBucket, "ok")
        ELSE GetResult(b1,
                       [m EXCEPT !.adopted =
                           Append(@, [filename |-> b1.mFilename,
                                      hash |-> b1.mHasher,
                                      mergeKey |-> mergeKey])],
                       [empty |-> FALSE, hash |-> b1.mHasher], "ok")

\* The synchronous index (lines 218-231) is handed to the manager and decides
\* nothing here; it is left out.
getBucket(b, m, mergeKey) ==
    LET b1 == flushBuf(b)
    IN  IF b1.mObjectsPut = 0 \/ b1.mBytesPut = 0
        THEN IF b1.mObjectsPut # 0 \/ b1.mBytesPut # 0
             THEN GetResult(b1, m, EmptyBucket, "aborted")
             ELSE GetResult(b1,
                            [m EXCEPT !.removed = @ \cup {b1.mFilename},
                                      !.emptyNoted = IF mergeKey # NoMergeKey
                                                     THEN Append(@, mergeKey)
                                                     ELSE @],
                            EmptyBucket, "ok")
        ELSE LET hash == b1.mHasher
                 adoption == [filename |-> b1.mFilename, hash |-> hash,
                              mergeKey |-> mergeKey]
             IN  GetResult(b1, [m EXCEPT !.adopted = Append(@, adoption)],
                           [empty |-> FALSE, hash |-> hash], "ok")

(***************************************************************************)
(* State.                                                                  *)
(***************************************************************************)
VARIABLES
    bucketT,    \* the BucketT the builders are instantiated with
    out,        \* builder id -> the BucketOutputIterator
    mc,         \* builder id -> its MergeCounters
    mgr,        \* builder id -> what its BucketManager was asked to do
    ret,        \* builder id -> what getBucket returned
    puts,       \* the put calls that returned: entry and outcome
    last,       \* the last call on the builders: its argument and outcome
    pc,         \* "open", "finished" or "aborted"; "idle" with no builder
    mCurrentSnapshot,   \* the snapshot the BucketSnapshotManager published last
    mSnapshot,          \* the snapshot the reader holds
    call                \* the reader's call

builderVars == <<bucketT, out, mc, mgr, ret, puts, last, pc>>
readerVars == <<mCurrentSnapshot, mSnapshot, call>>
vars == <<bucketT, out, mc, mgr, ret, puts, last, pc, mCurrentSnapshot, mSnapshot, call>>

NoSnapshot == [ledgerSeq |-> 0, levels |-> <<>>]
NoCall == [op |-> "none", phase |-> "idle"]
NoReader ==
    mCurrentSnapshot = NoSnapshot /\ mSnapshot = NoSnapshot /\ call = NoCall

NoBucket == [empty |-> TRUE, pending |-> TRUE]

\* The entries a caller may hand to a builder of type T.
InputEntries(T, lv) ==
    IF T = "LiveBucket"
    THEN {LiveE(k, v) : k \in Keys, v \in Vals}
         \cup {InitE(k, v) : k \in Keys, v \in Vals}
         \cup {DeadE(k) : k \in Keys} \cup {MetaE(lv)}
    ELSE {ArchivedE(k, v) : k \in Keys, v \in Vals}
         \cup {ArchiveLiveE(k) : k \in Keys} \cup {ArchiveMetaE(lv)}

InitBuilders(ids, c0) ==
    /\ bucketT \in BucketTs
    /\ \E keep \in BOOLEAN, lv \in LedgerVersions :
          /\ CanConstruct(bucketT, lv)
          /\ out = [i \in ids |->
                      BucketOutputIterator(bucketT, i, keep, lv, c0[i]).b]
          /\ mc = [i \in ids |->
                      BucketOutputIterator(bucketT, i, keep, lv, c0[i]).mc]
    /\ mgr = [i \in ids |-> Manager0]
    /\ ret = [i \in ids |-> NoBucket]
    /\ puts = <<>>
    /\ last = [e |-> NoEntry, outcome |-> "constructed", mergeKey |-> NoMergeKey]
    /\ pc = "open"
    /\ NoReader

\* The caller hands entry e to every builder.  A call that throws leaves no
\* trace in puts; a call that aborts ends the process.
Put ==
    /\ pc = "open"
    /\ Len(puts) < MaxPuts
    /\ \E e \in InputEntries(bucketT, out[1].mMeta) :
          LET r == [i \in DOMAIN out |-> put(bucketT, out[i], mc[i], e)]
              o == r[1].outcome
          IN  /\ out' = [i \in DOMAIN out |-> r[i].b]
              /\ mc' = [i \in DOMAIN out |-> r[i].mc]
              /\ puts' = IF o \in {"ok", "elided"}
                         THEN Append(puts, [e |-> e, outcome |-> o])
                         ELSE puts
              /\ last' = [e |-> e, outcome |-> o, mergeKey |-> NoMergeKey]
              /\ pc' = IF o = "aborted" THEN "aborted" ELSE "open"
    /\ UNCHANGED <<bucketT, mgr, ret>>
    /\ UNCHANGED readerVars

\* The caller finalizes every builder.
Finalize ==
    /\ pc = "open"
    /\ \E mk \in MergeKeys :
          LET r == [i \in DOMAIN out |-> getBucket(out[i], mgr[i], mk)]
          IN  /\ out' = [i \in DOMAIN out |-> r[i].b]
              /\ mgr' = [i \in DOMAIN out |-> r[i].mgr]
              /\ ret' = [i \in DOMAIN out |-> r[i].ret]
              /\ last' = [e |-> NoEntry, outcome |-> "getBucket", mergeKey |-> mk]
              /\ pc' = IF r[1].outcome = "aborted" THEN "aborted" ELSE "finished"
    /\ UNCHANGED <<bucketT, mc, puts>>
    /\ UNCHANGED readerVars

InitOut == InitBuilders({1}, <<MergeCounters0>>)
NextOut == Put \/ Finalize
SpecOut == InitOut /\ [][NextOut]_vars

\* Two builders of one configuration, each with a file name of its own, the
\* second counting into MergeCounters that earlier merges have used; every
\* call of the caller goes to both.
UsedMergeCounters ==
    [mOutputIteratorTombstoneElisions |-> 4,
     mOutputIteratorActualWrites |-> 3,
     mOutputIteratorLiveToInitRewrites |-> 2,
     mOutputIteratorBufferUpdates |-> 1]

InitHash == InitBuilders({1, 2}, <<MergeCounters0, UsedMergeCounters>>)
NextHash == Put \/ Finalize
SpecHash == InitHash /\ [][NextHash]_vars

(***************************************************************************)
(* The read path.  A bucket of a snapshot is its file's data entries in    *)
(* key order, the page size of its index and the pool ids its index holds  *)
(* for the asset of the trustline query; an empty bucket has no file.      *)
(* Ledger keys below 2 are account keys.  An entry's val names the         *)
(* snapshot and the bucket it was written to.                              *)
(***************************************************************************)
\* Levels of a bucket list.
NumLevels == 2
\* Largest ledger key a reader asks for.
MaxReadKey == 3

Positions == 1 .. 2 * NumLevels
ReadKeys == 1 .. MaxReadKey

NoDest == 0
NoOffset == 0
NoKey == 0
NoMeter == [none |-> TRUE]

NoBucketEntry == [type |-> "NONE", key |-> 0, val |-> 0, balance |-> 0, dest |-> NoDest]
NoLedgerEntry == [key |-> 0, val |-> 0, balance |-> 0, dest |-> NoDest]

\* BucketEntry::liveEntry.
liveEntry(be) == [key |-> be.key, val |-> be.val, balance |-> be.balance, dest |-> be.dest]

isAccountKey(k) == k < 2

SetMin(S) == CHOOSE x \in S : \A y \in S : x <= y
SetMax(S) == CHOOSE x \in S : \A y \in S : x >= y

isEmpty(b) == b.isEmpty

\* The index of a bucket: one element per record (page size 0) or one per
\* page of pageSize records, with the key range and the offset of each.
IndexOf(b) ==
    LET n == Len(b.entries)
    IN  IF b.pageSize = 0
        THEN [i \in 1 .. n |->
                [lower |-> b.entries[i].key, upper |-> b.entries[i].key, offset |-> i]]
        ELSE [p \in 1 .. ((n + b.pageSize - 1) \div b.pageSize) |->
                [lower |-> b.entries[(p - 1) * b.pageSize + 1].key,
                 upper |-> b.entries[SetMin({p * b.pageSize, n})].key,
                 offset |-> (p - 1) * b.pageSize + 1]]

\* BucketIndex::scan: the first index element at or after the cursor that
\* does not end below k; its offset if k lies in it.
scan(b, it, k) ==
    LET idx == IndexOf(b)
        cands == {i \in it .. Len(idx) : idx[i].upper >= k}
        j == IF cands = {} THEN Len(idx) + 1 ELSE SetMin(cands)
    IN  [off |-> IF j <= Len(idx) /\ idx[j].lower <= k
                 THEN idx[j].offset ELSE NoOffset,
         it |-> j]

\* BucketIndex::lookup.
lookup(b, k) == scan(b, 1, k).off

\* BucketSnapshot::getEntryAtOffset: one record, or the record of key k of
\* the page at pos.
getEntryAtOffset(b, k, pos, pageSize) ==
    IF isEmpty(b) THEN NoBucketEntry
    ELSE IF pageSize = 0
    THEN IF pos \in 1 .. Len(b.entries) THEN b.entries[pos] ELSE NoBucketEntry
    ELSE LET hits == {i \in pos .. SetMin({pos + pageSize - 1, Len(b.entries)}) :
                         b.entries[i].key = k}
         IN  IF hits = {} THEN NoBucketEntry ELSE b.entries[SetMin(hits)]

\* BucketSnapshot::getBucketEntry.
getBucketEntry(b, k) ==
    IF isEmpty(b) THEN NoBucketEntry
    ELSE LET pos == lookup(b, k)
         IN  IF pos # NoOffset
             THEN getEntryAtOffset(b, k, pos, b.pageSize)
             ELSE NoBucketEntry

\* BucketSnapshot::getPoolIDsByAsset.
getPoolIDsByAsset(b) == IF isEmpty(b) THEN {} ELSE b.poolIDs

(***************************************************************************)
(* LedgerKeyMeter: the read quota of each transaction and the transactions *)
(* that hold each key.                                                     *)
(***************************************************************************)
\* xdr::xdr_size of a ledger key and of a ledger entry, in words.
xdr_size_key(k) == IF k % 2 = 0 THEN 3 ELSE 1
xdr_size_entry(le) == xdr_size_key(le.key) + 1

canLoad(m, k, size) == \E t \in m.keyToTxs[k] : m.txReadBytes[t] >= size

updateReadQuotasForKey(m, k, size) ==
    [m EXCEPT !.txReadBytes =
        [t \in DOMAIN @ |->
            IF t \in m.keyToTxs[k]
            THEN (IF @[t] < size THEN 0 ELSE @[t] - size)
            ELSE @[t]]]

\* An iterator advanced once more than the loop asks.
NextKey_SkipOne(keys, k) ==
    IF Cardinality({x \in keys : x > k}) < 2 THEN NoKey
    ELSE SetMin({x \in keys : x > k} \ {SetMin({x \in keys : x > k})})

\* The key after k in the sorted set keys.
NextKey(keys, k) ==
    IF {x \in keys : x > k} = {} THEN NoKey ELSE SetMin({x \in keys : x > k})

FirstKey(keys) == IF keys = {} THEN NoKey ELSE SetMin(keys)

\* What one pass of the loop of loadKeysWithLimits did, for the claims.
Event(kind, st, k, size, added) ==
    [kind |-> kind, pos |-> st.pos, key |-> k, size |-> size, added |-> added]

\* A rejection that leaves the key in the pending set.
rejectPreRead_KeepKey(st, k) ==
    [st EXCEPT !.lkMeter = updateReadQuotasForKey(@, k, xdr_size_key(k)),
               !.log = Append(@, Event("pre", st, k, xdr_size_key(k), FALSE))]

\* Lines 112-120: the meter has rejected key k before the read.
rejectPreRead(st, k) ==
    [st EXCEPT !.lkMeter = updateReadQuotasForKey(@, k, xdr_size_key(k)),
               !.keys = @ \ {k},
               !.log = Append(@, Event("pre", st, k, xdr_size_key(k), FALSE))]

\* A read that appends every live entry it finds.
foundEntry_AddUnchecked(st, k, entryOp) ==
    IF entryOp.type # "DEADENTRY"
    THEN [st EXCEPT
            !.lkMeter = IF @ # NoMeter
                        THEN updateReadQuotasForKey(@, k,
                                 xdr_size_entry(liveEntry(entryOp)))
                        ELSE @,
            !.entries = Append(@, liveEntry(entryOp)),
            !.keys = @ \ {k},
            !.log = IF st.lkMeter # NoMeter
                    THEN Append(@, Event("post", st, k,
                                         xdr_size_entry(liveEntry(entryOp)), TRUE))
                    ELSE @]
    ELSE [st EXCEPT !.keys = @ \ {k}]

\* Lines 127-150: the read has found entryOp for key k.
foundEntry(st, k, entryOp) ==
    IF entryOp.type # "DEADENTRY"
    THEN LET entrySize == xdr_size_entry(liveEntry(entryOp))
             metered == st.lkMeter # NoMeter
             addEntry == ~metered \/ canLoad(st.lkMeter, k, entrySize)
         IN  [st EXCEPT
                !.lkMeter = IF metered
                            THEN updateReadQuotasForKey(@, k, entrySize)
                            ELSE @,
                !.entries = IF addEntry THEN Append(@, liveEntry(entryOp)) ELSE @,
                !.keys = @ \ {k},
                !.log = IF metered
                        THEN Append(@, Event("post", st, k, entrySize, addEntry))
                        ELSE @]
    ELSE [st EXCEPT !.keys = @ \ {k}]

\* One pass of the loop of lines 103-155 at key k and index cursor it: the
\* state, the key and the cursor it leaves.  st holds keys, entries and
\* lkMeter.
loadKeysPass(b, st, k, it) ==
    IF st.lkMeter # NoMeter /\ ~canLoad(st.lkMeter, k, xdr_size_key(k))
    THEN [st |-> rejectPreRead(st, k), k |-> NextKey(st.keys, k), it |-> it]
    ELSE LET s == scan(b, it, k)
             entryOp == IF s.off # NoOffset
                        THEN getEntryAtOffset(b, k, s.off, b.pageSize)
                        ELSE NoBucketEntry
             st1 == [st EXCEPT !.log = Append(@, Event("scan", st, k, 0, FALSE))]
         IN  [st |-> IF entryOp # NoBucketEntry
                     THEN foundEntry(st1, k, entryOp)
                     ELSE st1,
              k |-> NextKey(st.keys, k),
              it |-> s.it]

\* BucketSnapshot::loadKeysWithLimits, lines 103-155: the loop from key k and
\* index cursor it.
RECURSIVE loadKeysLoop(_, _, _, _)
loadKeysLoop(b, st, k, it) ==
    IF k = NoKey \/ it > Len(IndexOf(b)) THEN st
    ELSE CHOOSE r \in {loadKeysLoop(b, n.st, n.k, n.it) :
                          n \in {loadKeysPass(b, st, k, it)}} : TRUE

\* BucketSnapshot::loadKeysWithLimits.
loadKeysWithLimits(b, st) ==
    IF isEmpty(b) THEN st ELSE loadKeysLoop(b, st, FirstKey(st.keys), 1)

(***************************************************************************)
(* SearchableBucketListSnapshot.  A call is the record of what its body    *)
(* and its visitor hold: the arguments, the variables the visitor has      *)
(* captured, the position of the loop of loopAllBuckets and, for the       *)
(* claims, the buckets handed to the visitor and the snapshots at entry.   *)
(***************************************************************************)
EmptyMap == [x \in {} |-> 0]

MapAdd(m, k, v) ==
    [x \in DOMAIN m \cup {k} |->
        IF x = k THEN (IF k \in DOMAIN m THEN m[k] + v ELSE v) ELSE m[x]]

Call0 ==
    [op |-> "none", phase |-> "idle", loop |-> "none", pos |-> 0,
     k |-> NoKey, inKeys |-> {}, inMeter |-> NoMeter,
     maxWinners |-> 0, minBalance |-> 0,
     result |-> NoLedgerEntry, keys |-> {}, entries |-> <<>>,
     lkMeter |-> NoMeter, trustlinesToLoad |-> {},
     voteCount |-> EmptyMap, seen |-> {}, winners |-> <<>>,
     visited |-> <<>>, stops |-> <<>>, log |-> <<>>,
     entrySeq |-> 0, managerSeq |-> 0, pastEnd |-> FALSE]

\* BucketSnapshotManager::maybeUpdateSnapshot: the reader takes the
\* manager's current snapshot when it holds one of another ledger.
maybeUpdateSnapshot(current, held) ==
    IF held.ledgerSeq # current.ledgerSeq THEN current ELSE held

\* The bucket at position p of a snapshot: curr, then snap, of each level.
BucketAt(snap, p) ==
    IF p % 2 = 1 THEN snap.levels[(p + 1) \div 2].curr
    ELSE snap.levels[(p + 1) \div 2].snap

\* A visitor that walks on past a DeadEntry.
getLedgerEntryVisitor_PastDead(b, rd) ==
    LET be == getBucketEntry(b, rd.k)
    IN  IF be # NoBucketEntry /\ be.type # "DEADENTRY"
        THEN [rd |-> [rd EXCEPT !.result = liveEntry(be)], stop |-> TRUE]
        ELSE [rd |-> rd, stop |-> FALSE]

\* The visitor of getLedgerEntryInternal, lines 92-106.
getLedgerEntryVisitor(b, rd) ==
    LET be == getBucketEntry(b, rd.k)
    IN  IF be # NoBucketEntry
        THEN [rd |-> [rd EXCEPT !.result = IF be.type = "DEADENTRY"
                                           THEN NoLedgerEntry
                                           ELSE liveEntry(be)],
              stop |-> TRUE]
        ELSE [rd |-> rd, stop |-> FALSE]

\* The visitor of loadKeysInternal, lines 121-124.
loadKeysVisitor(b, rd) ==
    CHOOSE r \in {[rd |-> st, stop |-> st.keys = {}] :
                     st \in {loadKeysWithLimits(b, rd)}} : TRUE

\* The trustline key of the queried account for pool poolID.
trustlineKey(poolID) == poolID

\* trustLineLoop, lines 180-191.
trustLineLoop(b, rd) ==
    [rd |-> [rd EXCEPT !.trustlinesToLoad =
                          @ \cup {trustlineKey(id) : id \in getPoolIDsByAsset(b)}],
     stop |-> FALSE]

\* countVotes forgetting the accounts it has seen dead.
RECURSIVE countVotes_DeadUnseen(_, _, _)
countVotes_DeadUnseen(b, rd, i) ==
    IF i > Len(b.entries) THEN rd
    ELSE LET be == b.entries[i]
         IN  IF be.type = "DEADENTRY" THEN countVotes_DeadUnseen(b, rd, i + 1)
             ELSE IF ~isAccountKey(be.key) THEN rd
             ELSE IF be.key \in rd.seen THEN countVotes_DeadUnseen(b, rd, i + 1)
             ELSE countVotes_DeadUnseen(b,
                     [rd EXCEPT !.seen = @ \cup {be.key},
                                !.voteCount =
                                    IF be.dest # NoDest /\ be.balance >= 1000000000
                                    THEN MapAdd(@, be.dest, be.balance)
                                    ELSE @],
                     i + 1)

\* countVotesInBucket, lines 219-251: the records of the file from record i.
RECURSIVE countVotes(_, _, _)
countVotes(b, rd, i) ==
    IF i > Len(b.entries) THEN rd
    ELSE LET be == b.entries[i]
         IN  IF be.type = "DEADENTRY"
             THEN countVotes(b, IF isAccountKey(be.key)
                                THEN [rd EXCEPT !.seen = @ \cup {be.key}]
                                ELSE rd, i + 1)
             ELSE IF ~isAccountKey(be.key) THEN rd
             ELSE IF be.key \in rd.seen THEN countVotes(b, rd, i + 1)
             ELSE countVotes(b,
                     [rd EXCEPT !.seen = @ \cup {be.key},
                                !.voteCount =
                                    IF be.dest # NoDest /\ be.balance >= 1000000000
                                    THEN MapAdd(@, be.dest, be.balance)
                                    ELSE @],
                     i + 1)

countVotesInBucket(b, rd) == [rd |-> countVotes(b, rd, 1), stop |-> FALSE]

\* The call of f in processBucket.
Visit(b, rd) ==
    IF rd.loop = "getLedgerEntry" THEN getLedgerEntryVisitor(b, rd)
    ELSE IF rd.loop = "loadKeys" THEN loadKeysVisitor(b, rd)
    ELSE IF rd.loop = "trustLineLoop" THEN trustLineLoop(b, rd)
    ELSE countVotesInBucket(b, rd)

\* A bulk load that refreshes the held snapshot, as the public one does.
loadKeysInternal_Refreshing(current, held, rd, inKeys, lkMeter) ==
    [held |-> maybeUpdateSnapshot(current, held),
     rd |-> [rd EXCEPT !.loop = "loadKeys", !.pos = 1, !.keys = inKeys,
                       !.entries = <<>>, !.lkMeter = lkMeter]]

\* loadKeysInternal up to its loop: the copy of the key set, the empty
\* result, and the loop over the snapshot the reader holds.
loadKeysInternal(current, held, rd, inKeys, lkMeter) ==
    [held |-> held,
     rd |-> [rd EXCEPT !.loop = "loadKeys", !.pos = 1, !.keys = inKeys,
                       !.entries = <<>>, !.lkMeter = lkMeter]]

\* What follows the return of loopAllBuckets in each body.
AfterLoop(current, held, rd) ==
    IF rd.loop = "trustLineLoop"
    THEN loadKeysInternal(current, held, rd, rd.trustlinesToLoad, NoMeter)
    ELSE [held |-> held, rd |-> [rd EXCEPT !.phase = "looped"]]

\* processBucket, lines 54-61, on a bucket that is not empty: the call of
\* the visitor and what it returned are noted in the call record.
processBucket(held, b, rd) ==
    CHOOSE r \in {[rd |-> [v.rd EXCEPT !.stops = Append(@, v.stop)],
                   stop |-> v.stop] :
                     v \in {Visit(b, [rd EXCEPT !.visited =
                                         Append(@, [seq |-> held.ledgerSeq,
                                                    pos |-> rd.pos])])}} : TRUE

\* loopAllBuckets going on after the visitor has returned true.
loopAllBuckets_NoEarlyExit(current, held, rd) ==
    IF rd.pos > 2 * Len(held.levels) THEN AfterLoop(current, held, rd)
    ELSE LET b == BucketAt(held, rd.pos)
         IN  IF isEmpty(b)
             THEN [held |-> held, rd |-> [rd EXCEPT !.pos = @ + 1]]
             ELSE [held |-> held,
                   rd |-> [processBucket(held, b, rd).rd EXCEPT !.pos = @ + 1]]

\* One pass of the loop of loopAllBuckets: the bucket at rd.pos of the held
\* snapshot is skipped when empty and handed to the visitor otherwise.
loopAllBuckets(current, held, rd) ==
    IF rd.pos > 2 * Len(held.levels) THEN AfterLoop(current, held, rd)
    ELSE LET b == BucketAt(held, rd.pos)
         IN  IF isEmpty(b)
             THEN [held |-> held, rd |-> [rd EXCEPT !.pos = @ + 1]]
             ELSE LET r == processBucket(held, b, rd)
                  IN  IF r.stop THEN AfterLoop(current, held, r.rd)
                      ELSE [held |-> held, rd |-> [r.rd EXCEPT !.pos = @ + 1]]

\* The loop run until it returns.
RECURSIVE RunLoop(_, _, _)
RunLoop(current, held, rd) ==
    IF rd.phase # "loop" THEN [held |-> held, rd |-> rd]
    ELSE CHOOSE x \in {RunLoop(current, r.held, r.rd) :
                          r \in {loopAllBuckets(current, held, rd)}} : TRUE

\* The entry of a public operation: the refresh and the call record.
Enter(current, held, op) ==
    LET h == maybeUpdateSnapshot(current, held)
    IN  [held |-> h,
         rd |-> [Call0 EXCEPT !.op = op, !.phase = "loop", !.pos = 1,
                              !.entrySeq = h.ledgerSeq,
                              !.managerSeq = current.ledgerSeq]]

\* getLedgerEntry, lines 70-85, up to the loop.
getLedgerEntry(current, held, k) ==
    LET c == Enter(current, held, "getLedgerEntry")
    IN  [held |-> c.held,
         rd |-> [c.rd EXCEPT !.loop = "getLedgerEntry", !.k = k]]

\* SearchableBucketListSnapshot::loadKeysWithLimits, lines 130-161, up to
\* the loop.
loadKeys(current, held, inKeys, lkMeter) ==
    LET c == Enter(current, held, "loadKeysWithLimits")
    IN  loadKeysInternal(current, c.held,
                         [c.rd EXCEPT !.inKeys = inKeys, !.inMeter = lkMeter],
                         inKeys, lkMeter)

\* loadPoolShareTrustLinesByAccountAndAsset, lines 168-193, up to the first
\* loop; a call off the main thread aborts before the refresh.
loadPoolShareTrustLinesByAccountAndAsset(current, held, threadIsMain) ==
    IF ~threadIsMain
    THEN [held |-> held,
          rd |-> [Call0 EXCEPT !.op = "loadPoolShareTrustLines",
                               !.phase = "aborted"]]
    ELSE LET c == Enter(current, held, "loadPoolShareTrustLines")
         IN  [held |-> c.held, rd |-> [c.rd EXCEPT !.loop = "trustLineLoop"]]

\* loadInflationWinners, lines 202-256, up to the loop; a call off the main
\* thread aborts after the refresh.
loadInflationWinners(current, held, maxWinners, minBalance, threadIsMain) ==
    LET c == Enter(current, held, "loadInflationWinners")
    IN  IF ~threadIsMain
        THEN [held |-> c.held, rd |-> [c.rd EXCEPT !.phase = "aborted"]]
        ELSE [held |-> c.held,
              rd |-> [c.rd EXCEPT !.loop = "countVotes",
                                  !.maxWinners = maxWinners,
                                  !.minBalance = minBalance]]

\* The end of loadInflationWinners, lines 257-291.  The order in which an
\* unordered map is walked is any order; voteCountSortedByCount keeps, of
\* the accounts of one count, the one walked last; reading iter->first at
\* the end of that map is undefined.
Counts(vc) == {vc[id] : id \in DOMAIN vc}

RECURSIVE Descending(_)
Descending(S) ==
    IF S = {} THEN <<>> ELSE <<SetMax(S)>> \o Descending(S \ {SetMax(S)})

Orders(S) ==
    {s \in [1 .. Cardinality(S) -> S] : \A i, j \in DOMAIN s : s[i] = s[j] => i = j}

selectWinners(voteCount, maxWinners, minBalance) ==
    IF Cardinality(DOMAIN voteCount) > maxWinners
    THEN LET cs == Descending(Counts(voteCount))
             n == Cardinality({c \in Counts(voteCount) : c >= minBalance})
             take == IF n >= maxWinners THEN maxWinners ELSE n
             pastEnd == n < maxWinners /\ n = Len(cs)
             kept == {g \in [Counts(voteCount) -> DOMAIN voteCount] :
                         \A c \in Counts(voteCount) : voteCount[g[c]] = c}
             W(g) == [i \in 1 .. take |-> [id |-> g[cs[i]], votes |-> cs[i]]]
         IN  IF pastEnd
             THEN {[winners |-> W(g), phase |-> ph, pastEnd |-> TRUE] :
                      g \in kept, ph \in {"returned", "aborted"}}
                  \cup {[winners |-> Append(W(g), [id |-> NoDest, votes |-> 0]),
                         phase |-> "returned", pastEnd |-> TRUE] : g \in kept}
             ELSE {[winners |-> W(g), phase |-> "returned", pastEnd |-> FALSE] :
                      g \in kept}
    ELSE {[winners |-> w, phase |-> "returned", pastEnd |-> FALSE] :
             w \in Orders({[id |-> id, votes |-> voteCount[id]] :
                              id \in {x \in DOMAIN voteCount :
                                         voteCount[x] >= minBalance}})}

\* What the return of a call whose loop has ended may leave.
Returns(rd) ==
    IF rd.phase # "looped" THEN {rd}
    ELSE IF rd.op = "loadInflationWinners"
    THEN {[rd EXCEPT !.winners = o.winners, !.phase = o.phase,
                     !.pastEnd = o.pastEnd] :
             o \in selectWinners(rd.voteCount, rd.maxWinners, rd.minBalance)}
    ELSE {[rd EXCEPT !.phase = "returned"]}

(***************************************************************************)
(* Snapshots for the readers.                                              *)
(***************************************************************************)
REntry(type, k, balance, dest) ==
    [type |-> type, key |-> k, val |-> 0, balance |-> balance, dest |-> dest]

Bucket(entries, pageSize, poolIDs) ==
    [isEmpty |-> FALSE, pageSize |-> pageSize, poolIDs |-> poolIDs,
     entries |-> entries]

EmptyBucketSnapshot ==
    [isEmpty |-> TRUE, pageSize |-> 0, poolIDs |-> {}, entries |-> <<>>]

\* The bucket of shape b written at position p of the snapshot of ledger seq.
Written(b, seq, p) ==
    [b EXCEPT !.entries = [i \in DOMAIN @ |-> [@[i] EXCEPT !.val = 10 * seq + p]]]

Snapshot(seq, shape) ==
    [ledgerSeq |-> seq,
     levels |-> [l \in 1 .. NumLevels |->
                    [curr |-> Written(shape[2 * l - 1], seq, 2 * l - 1),
                     snap |-> Written(shape[2 * l], seq, 2 * l)]]]

DeadLive == Bucket(<<REntry("DEADENTRY", 1, 0, NoDest),
                     REntry("LIVEENTRY", 2, 0, NoDest)>>, 0, {})
LiveGapLive == Bucket(<<REntry("LIVEENTRY", 1, 0, NoDest),
                        REntry("LIVEENTRY", 3, 0, NoDest)>>, 2, {})
InitDead == Bucket(<<REntry("LIVEENTRY", 1, 0, NoDest),
                     REntry("INITENTRY", 2, 0, NoDest),
                     REntry("DEADENTRY", 3, 0, NoDest)>>, 2, {})

BucketPool == {EmptyBucketSnapshot, DeadLive, LiveGapLive, InitDead}

NoBuilder ==
    /\ bucketT = "none"
    /\ out = <<>> /\ mc = <<>> /\ mgr = <<>> /\ ret = <<>> /\ puts = <<>>
    /\ last = [e |-> NoEntry, outcome |-> "none", mergeKey |-> NoMergeKey]
    /\ pc = "idle"

\* A reader constructed on the manager's first snapshot.
InitReader(pool) ==
    /\ NoBuilder
    /\ \E shape \in pool : mCurrentSnapshot = Snapshot(1, shape)
    /\ mSnapshot = maybeUpdateSnapshot(mCurrentSnapshot, NoSnapshot)
    /\ call = Call0

\* The first call of the reader as a whole: entry, loop and return.
Call(c) ==
    /\ call.phase = "idle"
    /\ LET r == RunLoop(mCurrentSnapshot, c.held, c.rd)
       IN  /\ mSnapshot' = r.held
           /\ call' \in Returns(r.rd)
    /\ UNCHANGED mCurrentSnapshot
    /\ UNCHANGED builderVars

GetLedgerEntry == \E k \in ReadKeys : Call(getLedgerEntry(mCurrentSnapshot, mSnapshot, k))

LoadKeys ==
    \E inKeys \in SUBSET ReadKeys : Call(loadKeys(mCurrentSnapshot, mSnapshot, inKeys, NoMeter))

InitRead == InitReader([Positions -> BucketPool])
NextRead == GetLedgerEntry \/ LoadKeys
SpecRead == InitRead /\ [][NextRead]_vars

\* Metered loads: two transactions, the first holding key 1, the second key
\* 2 and both every other key, each with a read quota up to MaxQuota.
MaxQuota == 4

Meters ==
    {[txReadBytes |-> q,
      keyToTxs |-> [k \in ReadKeys |->
                      IF k = 1 THEN {1} ELSE IF k = 2 THEN {2} ELSE {1, 2}]] :
        q \in [{1, 2} -> 0 .. MaxQuota]}

MeterPool == {DeadLive, LiveGapLive}

LoadKeysMetered ==
    \E inKeys \in SUBSET ReadKeys, lkMeter \in Meters :
        Call(loadKeys(mCurrentSnapshot, mSnapshot, inKeys, lkMeter))

InitMeter == InitReader([Positions -> MeterPool])
NextMeter == LoadKeysMetered
SpecMeter == InitMeter /\ [][NextMeter]_vars

\* The inflation query: bucket files of the accounts -1, 0 and 1, voting
\* for the accounts -2, -1 and 1.
\* Largest maxWinners asked of loadInflationWinners.
MaxWinners == 2

MinBalances == {1000000000, 1000000001}

Voters == Bucket(<<REntry("LIVEENTRY", -1, 1000000000, -2),
                   REntry("LIVEENTRY", 0, 1000000002, -1),
                   REntry("LIVEENTRY", 2, 0, NoDest)>>, 0, {})
DeadVoter == Bucket(<<REntry("DEADENTRY", -1, 0, NoDest),
                      REntry("INITENTRY", 1, 1000000002, 1)>>, 0, {})
PoorVoter == Bucket(<<REntry("LIVEENTRY", 0, 1000000000, 1),
                      REntry("LIVEENTRY", 1, 999999999, -1),
                      REntry("DEADENTRY", 2, 0, NoDest)>>, 0, {})
NoVote == Bucket(<<REntry("LIVEENTRY", -2, 1000000002, -2),
                   REntry("LIVEENTRY", -1, 1000000000, NoDest),
                   REntry("LIVEENTRY", 1, 1000000000, 1)>>, 0, {})

InflationPool == {Voters, DeadVoter, PoorVoter, NoVote}

LoadInflationWinners ==
    \E threadIsMain \in BOOLEAN, maxWinners \in 0 .. MaxWinners,
       minBalance \in MinBalances :
        Call(loadInflationWinners(mCurrentSnapshot, mSnapshot, maxWinners,
                                  minBalance, threadIsMain))

InitInfl == InitReader([Positions -> InflationPool])
NextInfl == LoadInflationWinners
SpecInfl == InitInfl /\ [][NextInfl]_vars

(***************************************************************************)
(* A reader and a publisher.  The reader's loop advances one bucket at a   *)
(* time; between any two of its steps the publisher may install the        *)
(* snapshot of the next ledger.                                            *)
(***************************************************************************)
\* Snapshots the publisher installs after the first.
MaxPublish == 2

Accounts == Bucket(<<REntry("LIVEENTRY", 0, 1000000000, 1),
                     REntry("LIVEENTRY", 1, 1000000000, 0),
                     REntry("LIVEENTRY", 2, 0, NoDest)>>, 0, {2})
DeadAccount == Bucket(<<REntry("DEADENTRY", 1, 0, NoDest),
                        REntry("LIVEENTRY", 3, 0, NoDest)>>, 0, {3})

PubShapes ==
    {[p \in Positions |-> Accounts],
     [p \in Positions |-> IF p = 1 THEN EmptyBucketSnapshot
                          ELSE IF p = 2 THEN DeadAccount ELSE Accounts],
     [p \in Positions |-> IF p % 2 = 1 THEN DeadAccount ELSE Accounts]}

CanBegin == call.phase \in {"idle", "returned"}

Begin(c) ==
    /\ CanBegin
    /\ mSnapshot' = c.held
    /\ call' = c.rd
    /\ UNCHANGED mCurrentSnapshot
    /\ UNCHANGED builderVars

BeginGetLedgerEntry ==
    \E k \in ReadKeys : Begin(getLedgerEntry(mCurrentSnapshot, mSnapshot, k))

BeginLoadKeys ==
    \E inKeys \in SUBSET ReadKeys :
        Begin(loadKeys(mCurrentSnapshot, mSnapshot, inKeys, NoMeter))

BeginLoadPoolShareTrustLines ==
    \E threadIsMain \in BOOLEAN :
        Begin(loadPoolShareTrustLinesByAccountAndAsset(mCurrentSnapshot, mSnapshot,
                                                      threadIsMain))

BeginLoadInflationWinners ==
    \E threadIsMain \in BOOLEAN, maxWinners \in 0 .. MaxWinners :
        Begin(loadInflationWinners(mCurrentSnapshot, mSnapshot, maxWinners,
                                   1000000000, threadIsMain))

\* The reader's loop looks at its next bucket.
LoopStep ==
    /\ call.phase = "loop"
    /\ LET r == loopAllBuckets(mCurrentSnapshot, mSnapshot, call)
       IN  /\ mSnapshot' = r.held
           /\ call' = r.rd
    /\ UNCHANGED mCurrentSnapshot
    /\ UNCHANGED builderVars

\* The reader's call returns.
Return ==
    /\ call.phase = "looped"
    /\ call' \in Returns(call)
    /\ UNCHANGED <<mCurrentSnapshot, mSnapshot>>
    /\ UNCHANGED builderVars

\* The publisher installs the snapshot of the next ledger.
Publish ==
    /\ call.phase # "aborted"
    /\ mCurrentSnapshot.ledgerSeq <= MaxPublish
    /\ \E shape \in PubShapes :
          mCurrentSnapshot' = Snapshot(mCurrentSnapshot.ledgerSeq + 1, shape)
    /\ UNCHANGED <<mSnapshot, call>>
    /\ UNCHANGED builderVars

InitPub == InitReader(PubShapes)
NextPub ==
    \/ BeginGetLedgerEntry
    \/ BeginLoadKeys
    \/ BeginLoadPoolShareTrustLines
    \/ BeginLoadInflationWinners
    \/ LoopStep
    \/ Return
    \/ Publish
SpecPub == InitPub /\ [][NextPub]_vars

(***************************************************************************)
(* The output builder: what a finished run is measured against.            *)
(***************************************************************************)
Finished == pc = "finished"

\* The caller's puts were sorted by identity, equal identities allowed.
SortedInput ==
    \A i, j \in 1 .. Len(puts) : i < j => ~mCmp(puts[j].e, puts[i].e)

IsOk(p) == p.outcome = "ok"
IsElided(p) == p.outcome = "elided"

EntriesOf(ps) == [i \in 1 .. Len(ps) |-> ps[i].e]

\* The header the constructor put, if it put one.
HeaderOf(b) == IF b.mPutMeta THEN <<MetaOf(bucketT, b.mMeta)>> ELSE <<>>

\* Every entry that went through the buffer, in order.
BufferedEntries(b) == HeaderOf(b) \o EntriesOf(SelectSeq(puts, IsOk))

RewriteApplies(b) ==
    /\ bucketT = "LiveBucket"
    /\ ~b.mKeepTombstoneEntries
    /\ b.mMeta >= FIRST_PROTOCOL_CONVERTING_BOTTOM_LEVEL_LIVE_TO_INIT

AsEmitted(b, e) ==
    IF RewriteApplies(b) /\ e.type = "LIVEENTRY"
    THEN [e EXCEPT !.type = "INITENTRY"]
    ELSE e

SameIdentity(a, b) == ~mCmp(a, b) /\ ~mCmp(b, a)

\* The last entry of every run of equal identities of s.
RECURSIVE LastOfRuns(_)
LastOfRuns(s) ==
    IF Len(s) <= 1 THEN s
    ELSE IF SameIdentity(s[1], s[2]) THEN LastOfRuns(Tail(s))
    ELSE <<s[1]>> \o LastOfRuns(Tail(s))

StrictlyAscending(s) == \A i \in 1 .. Len(s) - 1 : mCmp(s[i], s[i + 1])

\* Position i ends a run of equal identities of the caller's puts.
EndsRun(i) == i = Len(puts) \/ ~SameIdentity(puts[i].e, puts[i + 1].e)

\* C3 as stated: sorted input gives a strictly ascending file, and a put that
\* is not the last of its run of equal identities is never emitted.
C3_Original ==
    (Finished /\ SortedInput) =>
        /\ StrictlyAscending(out[1].mOut)
        /\ \A i \in 1 .. Len(puts) :
              ~EndsRun(i) =>
                 \A n \in 1 .. Len(out[1].mOut) :
                    out[1].mOut[n] # AsEmitted(out[1], puts[i].e)
                    \/ \E j \in (i + 1) .. Len(puts) :
                          /\ puts[j].e = puts[i].e
                          /\ EndsRun(j)

\* C3, amended: sorted input gives a strictly ascending file without a
\* repeated identity, and of every run of equal identities among the puts
\* that were not elided as bottom-level tombstones exactly the last one is
\* emitted (a live entry as an init entry where the bottom-level rewrite
\* applies); an elided tombstone supersedes nothing.
C3_OrderedDedup ==
    (Finished /\ SortedInput) =>
        /\ StrictlyAscending(out[1].mOut)
        /\ out[1].mOut =
              [n \in 1 .. Len(LastOfRuns(BufferedEntries(out[1]))) |->
                  AsEmitted(out[1], LastOfRuns(BufferedEntries(out[1]))[n])]

C3_Witness ==
    /\ Finished /\ SortedInput
    /\ Len(puts) = 3
    /\ SameIdentity(puts[1].e, puts[2].e)
    /\ puts[1].e.val # puts[2].e.val
    /\ IsOk(puts[1]) /\ IsOk(puts[2]) /\ IsOk(puts[3])
    /\ Len(out[1].mOut) >= 2

(***************************************************************************)
(* C4: the bottom-level rewrite.                                           *)
(***************************************************************************)
TypesIn(s) == {s[n].type : n \in 1 .. Len(s)}

\* C4 as stated: at the bottom level no live and no dead entry is emitted and
\* every live entry that was put is emitted as an init entry of the same
\* payload.
C4_Original ==
    (Finished /\ RewriteApplies(out[1])) =>
        /\ TypesIn(out[1].mOut) \cap {"LIVEENTRY", "DEADENTRY"} = {}
        /\ \A i \in 1 .. Len(puts) :
              puts[i].e.type = "LIVEENTRY" =>
                 \E n \in 1 .. Len(out[1].mOut) :
                    out[1].mOut[n] = InitE(puts[i].e.key, puts[i].e.val)

\* A later put went into the buffer with the identity of put i.
Superseded(i) ==
    \E j \in (i + 1) .. Len(puts) :
        IsOk(puts[j]) /\ SameIdentity(puts[i].e, puts[j].e)

\* C4, amended: at the bottom level (keep_tombstones false, version at or
\* above the rewrite threshold) no live and no dead entry is emitted, and
\* every live entry that was put and was not replaced in the buffer by a later
\* put of the same identity is emitted as an init entry of the same payload.
C4_BottomRewrite ==
    (Finished /\ RewriteApplies(out[1])) =>
        /\ TypesIn(out[1].mOut) \cap {"LIVEENTRY", "DEADENTRY"} = {}
        /\ \A i \in 1 .. Len(puts) :
              (puts[i].e.type = "LIVEENTRY" /\ ~Superseded(i)) =>
                 \E n \in 1 .. Len(out[1].mOut) :
                    out[1].mOut[n] = InitE(puts[i].e.key, puts[i].e.val)

C4_Witness ==
    /\ Finished /\ RewriteApplies(out[1])
    /\ Len(puts) = 3
    /\ puts[1].e.type = "DEADENTRY"
    /\ puts[2].e.type = "LIVEENTRY" /\ puts[3].e.type = "LIVEENTRY"
    /\ ~SameIdentity(puts[2].e, puts[3].e)
    /\ out[1].mOut = <<MetaE(out[1].mMeta),
                       InitE(puts[2].e.key, puts[2].e.val),
                       InitE(puts[3].e.key, puts[3].e.val)>>
    /\ mc[1].mOutputIteratorLiveToInitRewrites = 2

(***************************************************************************)
(* C5: finalize of a builder that was given nothing.                       *)
(***************************************************************************)
EmptyOutcome(i) ==
    /\ out[i].mBytesPut = 0 /\ out[i].mObjectsPut = 0
    /\ mgr[i].removed = {out[i].mFilename}
    /\ mgr[i].emptyNoted =
         (IF last.mergeKey # NoMergeKey THEN <<last.mergeKey>> ELSE <<>>)
    /\ mgr[i].adopted = <<>>
    /\ ret[i] = EmptyBucket

\* C5 as stated: with no non-meta put by the caller, whatever the protocol
\* version, finalize leaves both counts at 0, deletes the file, notes the
\* empty merge and returns the empty bucket.
C5_Original ==
    (Finished /\ \A i \in 1 .. Len(puts) : puts[i].e.type \in MetaTypes) =>
        EmptyOutcome(1)

\* C5, amended: when nothing went through the buffer (a version below the
\* meta threshold, so that the constructor put no header, and no caller put
\* other than elided or rejected ones) finalize leaves bytes_put = 0 and
\* objects_put = 0, deletes the file, notes the empty merge iff a merge key
\* was given and returns the empty bucket without adopting a file; when the
\* constructor put a meta header and the caller put nothing, finalize writes
\* the header (objects_put = 1, bytes_put > 0), keeps the file and adopts it.
C5_EmptyFinalize ==
    Finished =>
        /\ BufferedEntries(out[1]) = <<>> => EmptyOutcome(1)
        /\ (out[1].mPutMeta /\ puts = <<>>) =>
              /\ out[1].mObjectsPut = 1 /\ out[1].mBytesPut > 0
              /\ out[1].mOut = HeaderOf(out[1])
              /\ mgr[1].removed = {} /\ mgr[1].emptyNoted = <<>>
              /\ Len(mgr[1].adopted) = 1
              /\ ret[1] = [empty |-> FALSE, hash |-> mgr[1].adopted[1].hash]

C5_Witness ==
    /\ Finished
    /\ ~out[1].mPutMeta
    /\ Len(puts) >= 1
    /\ \A i \in 1 .. Len(puts) : IsElided(puts[i])
    /\ mgr[1].emptyNoted = <<"mk">>
    /\ mgr[1].removed = {out[1].mFilename}
    /\ ret[1] = EmptyBucket

(***************************************************************************)
(* C10: the accounting identity.                                           *)
(***************************************************************************)
\* 1 if getBucket flushed a buffered entry: the one write that is not counted
\* in mOutputIteratorActualWrites.
FinalFlush(i) == out[i].mObjectsPut - mc[i].mOutputIteratorActualWrites

MetaWritten(i) == IF out[i].mPutMeta THEN 1 ELSE 0

CountedSum(i) ==
    mc[i].mOutputIteratorTombstoneElisions + mc[i].mOutputIteratorActualWrites
        + FinalFlush(i) + MetaWritten(i)

\* C10 as stated, objects_seen being the caller's puts, or those and the
\* constructor's header.
C10_Original ==
    (Finished /\ SortedInput) =>
        \/ CountedSum(1) = Len(puts)
        \/ CountedSum(1) = Len(puts) + MetaWritten(1)

\* The puts that replaced a buffered entry of their own identity.
Replacements(i) ==
    Len(BufferedEntries(out[i])) - Len(LastOfRuns(BufferedEntries(out[i])))

\* C10, amended: at finalize, for every sorted input sequence,
\* tombstone_elisions + actual_writes + (1 if finalize flushed a buffered
\* entry) + (the number of puts that replaced a buffered entry of the same
\* identity) equals the number of entries the builder was given, the
\* constructor's meta header counting as one of them and not a second time.
C10_Accounting ==
    (Finished /\ SortedInput) =>
        /\ FinalFlush(1) \in {0, 1}
        /\ mc[1].mOutputIteratorTombstoneElisions
             + mc[1].mOutputIteratorActualWrites
             + FinalFlush(1) + Replacements(1)
           = Len(puts) + MetaWritten(1)

C10_Witness ==
    /\ Finished /\ SortedInput
    /\ out[1].mPutMeta
    /\ Len(puts) = 3
    /\ mc[1].mOutputIteratorTombstoneElisions = 1
    /\ mc[1].mOutputIteratorActualWrites = 1
    /\ FinalFlush(1) = 1
    /\ Replacements(1) = 1

(***************************************************************************)
(* C6: the hash of the file.                                               *)
(***************************************************************************)
\* The bytes of the records s, each behind its length prefix, in order.
RECURSIVE RecordBytes(_)
RecordBytes(s) ==
    IF s = <<>> THEN <<>>
    ELSE <<xdr_size(Head(s))>> \o xdrBytes(Head(s)) \o RecordBytes(Tail(s))

\* C6: two builders of the same configuration, with different file names and
\* different merge counters, that received the same puts in the same order
\* return the same bucket, and the hash of an adopted file is the hash over
\* exactly the records of the file in write order.
C6_HashStable ==
    Finished =>
        /\ ret[1] = ret[2]
        /\ \A i \in DOMAIN out :
              /\ ~ret[i].empty => ret[i].hash = RecordBytes(out[i].mOut)
              /\ \A n \in 1 .. Len(mgr[i].adopted) :
                    /\ mgr[i].adopted[n].hash = RecordBytes(out[i].mOut)
                    /\ mgr[i].adopted[n].filename = out[i].mFilename

C6_Witness ==
    /\ Finished
    /\ DOMAIN out = {1, 2}
    /\ out[1].mFilename # out[2].mFilename
    /\ mc[1] # mc[2]
    /\ Len(puts) = 3
    /\ Len(out[1].mOut) >= 3
    /\ ~ret[1].empty /\ ret[1].hash = ret[2].hash
    /\ Len(mgr[2].adopted) = 1

(***************************************************************************)
(* The reads: what a returned call is measured against.                    *)
(***************************************************************************)
Returned(op) == call.op = op /\ call.phase = "returned"

\* The file of bucket b has a record of key k.
HoldsKey(b, k) == ~b.isEmpty /\ \E i \in DOMAIN b.entries : b.entries[i].key = k

RecordOf(b, k) == b.entries[CHOOSE i \in DOMAIN b.entries : b.entries[i].key = k]

AllPositions(snap) == 1 .. 2 * Len(snap.levels)

\* The positions, in traversal order, of the buckets with a record of k.
Holders(snap, k) == {p \in AllPositions(snap) : HoldsKey(BucketAt(snap, p), k)}

NonEmptyUpTo(snap, upto) ==
    {p \in AllPositions(snap) : p <= upto /\ ~BucketAt(snap, p).isEmpty}

VisitedPositions == {call.visited[i].pos : i \in DOMAIN call.visited}

\* What the first bucket with a record of k decides.
FirstDecides(snap, k) ==
    IF Holders(snap, k) = {} THEN NoLedgerEntry
    ELSE LET be == RecordOf(BucketAt(snap, SetMin(Holders(snap, k))), k)
         IN  IF be.type = "DEADENTRY" THEN NoLedgerEntry ELSE liveEntry(be)

\* C1: getLedgerEntry(k) returns what the first non-empty bucket in
\* traversal order with an entry for k decides: nothing for a DeadEntry, the
\* entry for a Live or Init entry, nothing when no bucket has one; the
\* buckets after that one are not visited.
C1_Shadowing ==
    Returned("getLedgerEntry") =>
        /\ call.result = FirstDecides(mSnapshot, call.k)
        /\ VisitedPositions =
              NonEmptyUpTo(mSnapshot,
                  IF Holders(mSnapshot, call.k) = {} THEN 2 * NumLevels
                  ELSE SetMin(Holders(mSnapshot, call.k)))

\* A point load decided by a DeadEntry above a live entry, and one decided
\* by a live entry below a bucket without the key.
C1_Witness ==
    /\ Returned("getLedgerEntry")
    /\ Cardinality(Holders(mSnapshot, call.k)) >= 2
    /\ Cardinality(VisitedPositions) >= 2
    /\ call.result = NoLedgerEntry
    /\ \E p \in Holders(mSnapshot, call.k) :
          RecordOf(BucketAt(mSnapshot, p), call.k).type # "DEADENTRY"

\* getLedgerEntry(k) on the held snapshot.
PointLoad(k) ==
    LET c == getLedgerEntry(mCurrentSnapshot, mSnapshot, k)
    IN  RunLoop(mCurrentSnapshot, c.held, c.rd).rd.result

Present(K) == {k \in K : PointLoad(k) # NoLedgerEntry}

ResultKeys == {call.entries[i].key : i \in DOMAIN call.entries}

\* C2: loadKeysWithLimits(K) without a meter returns, as a multiset, the
\* entries getLedgerEntry(k) returns for the k of K for which it returns one.
C2_BulkIsPointLoads ==
    (Returned("loadKeysWithLimits") /\ call.inMeter = NoMeter) =>
        /\ Len(call.entries) = Cardinality(Present(call.inKeys))
        /\ ResultKeys = Present(call.inKeys)
        /\ \A i \in DOMAIN call.entries :
              call.entries[i] = PointLoad(call.entries[i].key)

\* A bulk load of three keys: one shadowed by a DeadEntry above a live
\* entry, one found below the first bucket visited.
C2_Witness ==
    /\ Returned("loadKeysWithLimits") /\ call.inMeter = NoMeter
    /\ Cardinality(call.inKeys) >= 3
    /\ \E k \in call.inKeys :
          /\ PointLoad(k) = NoLedgerEntry
          /\ \E p \in Holders(mSnapshot, k) :
                RecordOf(BucketAt(mSnapshot, p), k).type # "DEADENTRY"
    /\ \E i \in DOMAIN call.entries :
          call.entries[i].val # 10 * mSnapshot.ledgerSeq + SetMin(VisitedPositions)

MeteredReturn == Returned("loadKeysWithLimits") /\ call.inMeter # NoMeter

IsCharge(e) == e.kind \in {"pre", "post"}

\* The passes of the loop that charged key k.
Charges(k) == {i \in DOMAIN call.log : call.log[i].key = k /\ IsCharge(call.log[i])}

\* The meter after the charges of the first n passes.
RECURSIVE Replay(_, _, _)
Replay(m, log, n) ==
    IF n = 0 THEN m
    ELSE IF IsCharge(log[n])
    THEN updateReadQuotasForKey(Replay(m, log, n - 1), log[n].key, log[n].size)
    ELSE Replay(m, log, n - 1)

\* Charge i of key k is the key's size before the read, with no entry
\* returned, or the size of the key's entry after the read, the entry being
\* returned iff the meter could load it then; the key is no longer pending.
ChargedOneWay(k, i) ==
    /\ k \notin call.keys
    /\ call.log[i].kind = "pre" =>
          /\ call.log[i].size = xdr_size_key(k)
          /\ k \notin ResultKeys
    /\ call.log[i].kind = "post" =>
          /\ PointLoad(k) # NoLedgerEntry
          /\ call.log[i].size = xdr_size_entry(PointLoad(k))
          /\ k \in ResultKeys <=>
                canLoad(Replay(call.inMeter, call.log, i - 1), k, call.log[i].size)

\* C7 as stated: every key of K is charged, in exactly one of the two ways.
C7_Original ==
    MeteredReturn =>
        \A k \in call.inKeys :
            /\ Cardinality(Charges(k)) = 1
            /\ \A i \in Charges(k) : ChargedOneWay(k, i)

\* C7: in a metered loadKeysWithLimits every key of K is charged at most
\* once, in one of the two ways; a key that is never rejected before a read
\* and whose first entry is a DeadEntry, or that no bucket holds, is charged
\* nothing and returns nothing; the quotas end at the sum of the charges.
C7_MeteringConservation ==
    MeteredReturn =>
        /\ \A k \in call.inKeys :
              /\ Cardinality(Charges(k)) <= 1
              /\ \A i \in Charges(k) : ChargedOneWay(k, i)
              /\ Charges(k) = {} =>
                    PointLoad(k) = NoLedgerEntry /\ k \notin ResultKeys
        /\ call.lkMeter = Replay(call.inMeter, call.log, Len(call.log))
        /\ \A i \in DOMAIN call.log : call.log[i].key \in call.inKeys

\* A metered load with a key charged before the read, a key charged after
\* it and returned, a key charged after it and not returned, and a key
\* charged nothing.
C7_Witness ==
    /\ MeteredReturn
    /\ \E i \in DOMAIN call.log : call.log[i].kind = "pre"
    /\ \E i \in DOMAIN call.log : call.log[i].kind = "post" /\ call.log[i].added
    /\ \E k \in call.inKeys : Charges(k) = {}

\* C8: once the meter rejects a key before the read in some bucket the key
\* is no longer pending, is searched neither in that bucket nor in a later
\* one, and has no entry in the result; a key never rejected before a read
\* is returned iff its first entry is live and the meter could load it.
C8_PreReadRejectionFinal ==
    MeteredReturn =>
        /\ \A i \in DOMAIN call.log :
              call.log[i].kind = "pre" =>
                  /\ call.log[i].key \notin call.keys
                  /\ call.log[i].key \notin ResultKeys
                  /\ \A j \in DOMAIN call.log :
                        (call.log[j].key = call.log[i].key /\ j # i) =>
                            /\ j < i
                            /\ call.log[j].kind = "scan"
                            /\ call.log[j].pos < call.log[i].pos
        /\ \A k \in call.inKeys :
              (\A i \in Charges(k) : call.log[i].kind = "post") =>
                  /\ k \in ResultKeys <=>
                        /\ PointLoad(k) # NoLedgerEntry
                        /\ \E i \in Charges(k) : call.log[i].added
                  /\ \A n \in DOMAIN call.entries :
                        call.entries[n].key = k => call.entries[n] = PointLoad(k)

\* Keys 1, 2 and 3 are loaded; the meter rejects key 2 before the read in a
\* bucket that, or a bucket after which, holds a live entry for it; keys 1
\* and 3 are returned.
C8_Witness ==
    /\ MeteredReturn
    /\ {1, 2, 3} \subseteq call.inKeys
    /\ {1, 3} \subseteq ResultKeys
    /\ \E i \in DOMAIN call.log :
          /\ call.log[i].kind = "pre" /\ call.log[i].key = 2
          /\ \E p \in Holders(mSnapshot, 2) :
                /\ p >= call.log[i].pos
                /\ RecordOf(BucketAt(mSnapshot, p), 2).type # "DEADENTRY"

InCall == call.phase \in {"loop", "looped", "returned"}

\* C9: every bucket a public read visits, in either pass of the trustline
\* query too, is a bucket of the snapshot the reader held after the refresh
\* at the call's entry, which is the snapshot the manager had published by
\* then; the reader holds that snapshot until its next call, whatever the
\* publisher installs meanwhile.
C9_PointInTime ==
    InCall =>
        /\ \A i \in DOMAIN call.visited : call.visited[i].seq = call.entrySeq
        /\ \A i \in DOMAIN call.entries : call.entries[i].val \div 10 = call.entrySeq
        /\ call.result # NoLedgerEntry => call.result.val \div 10 = call.entrySeq
        /\ call.entrySeq = call.managerSeq
        /\ mSnapshot.ledgerSeq = call.entrySeq

\* The second pass of a trustline query that began on the snapshot of the
\* second ledger has visited a bucket and returned an entry while the
\* manager holds the snapshot of a later ledger.
C9_Witness ==
    /\ call.op = "loadPoolShareTrustLines"
    /\ call.loop = "loadKeys"
    /\ call.phase = "returned"
    /\ call.entrySeq = 2
    /\ mCurrentSnapshot.ledgerSeq > call.entrySeq
    /\ Len(call.visited) > 2 * NumLevels
    /\ Len(call.entries) > 0

(***************************************************************************)
(* The output builder: single calls.                                       *)
(***************************************************************************)
\* This step is a call of put.
PutCalled == pc = "open" /\ last'.outcome # "getBucket"

\* Entry e sorts strictly before the entry builder b has buffered.
OutOfOrder(b, e) == b.mBuf # NoEntry /\ mCmp(e, b.mBuf)

\* put rejects entry e: it is illegal at the builder's protocol version, a
\* meta entry after the header, or not a Soroban entry in an archive.
Rejected(T, b, e) ==
    IF T = "LiveBucket"
    THEN \/ /\ e.type \in {"INITENTRY", "METAENTRY"}
            /\ b.mMeta < FIRST_PROTOCOL_SUPPORTING_INITENTRY_AND_METAENTRY
         \/ e.type = "METAENTRY" /\ b.mPutMeta
    ELSE \/ e.type = "HOT_ARCHIVE_METAENTRY" /\ b.mPutMeta
         \/ e.type # "HOT_ARCHIVE_METAENTRY" /\ e.key < 2

\* put drops entry e as a tombstone of the bottom level.
Dropped(T, b, e) ==
    /\ ~b.mKeepTombstoneEntries
    /\ e.type = (IF T = "LiveBucket" THEN "DEADENTRY" ELSE "HOT_ARCHIVE_LIVE")

\* C11 as stated: every put of an entry that sorts strictly before the
\* buffered entry aborts.
C11_Original ==
    [][(PutCalled /\ OutOfOrder(out[1], last'.e)) => last'.outcome = "aborted"]_vars

\* C11: a put of an entry that sorts strictly before the buffered entry
\* aborts unless the entry is rejected, and the call throws, or is a
\* tombstone of the bottom level, and the call drops it and returns.
C11_OutOfOrderAborts ==
    [][(PutCalled /\ OutOfOrder(out[1], last'.e)) =>
          /\ Rejected(bucketT, out[1], last'.e) => last'.outcome = "threw"
          /\ (~Rejected(bucketT, out[1], last'.e)
                /\ Dropped(bucketT, out[1], last'.e)) => last'.outcome = "elided"
          /\ (~Rejected(bucketT, out[1], last'.e)
                /\ ~Dropped(bucketT, out[1], last'.e)) =>
                    /\ last'.outcome = "aborted"
                    /\ pc' = "aborted"
                    /\ out' = out]_vars

\* A put has aborted on an entry that sorts before the buffered data entry.
C11_Witness ==
    /\ pc = "aborted"
    /\ last.outcome = "aborted"
    /\ OutOfOrder(out[1], last.e)
    /\ out[1].mBuf.type \notin MetaTypes

\* The records written and the entry buffered, in the order of the file.
Pending(b) == IF b.mBuf = NoEntry THEN b.mOut ELSE Append(b.mOut, b.mBuf)

\* C12: the file of a builder, and the file with the buffered entry after
\* it, holds a meta entry as its first record or not at all; once the
\* constructor has put the header a put of a meta entry throws and changes
\* neither the builder nor the counters.
C12_MetaHeaderUnique ==
    /\ [](\A n \in DOMAIN Pending(out[1]) :
             Pending(out[1])[n].type \in MetaTypes => n = 1)
    /\ [][(PutCalled /\ last'.e.type \in MetaTypes /\ out[1].mPutMeta) =>
             /\ last'.outcome = "threw"
             /\ out' = out
             /\ mc' = mc]_vars

\* A put of a meta entry has thrown on a builder whose file begins with the
\* header and goes on with a data record.
C12_Witness ==
    /\ last.outcome = "threw"
    /\ last.e.type \in MetaTypes
    /\ out[1].mPutMeta
    /\ Len(out[1].mOut) >= 2
    /\ out[1].mOut[1].type \in MetaTypes

(***************************************************************************)
(* The inflation query.                                                    *)
(***************************************************************************)
\* The vote tally of a call of loadInflationWinners is complete.
Tallied ==
    /\ call.op = "loadInflationWinners"
    /\ call.loop = "countVotes"
    /\ call.phase \in {"returned", "aborted"}

\* The account keys with a record in some bucket of the snapshot.
AccountsOf(snap) ==
    {a \in -2 .. 1 : isAccountKey(a) /\ Holders(snap, a) # {}}

\* The topmost record of account a.
Topmost(snap, a) == RecordOf(BucketAt(snap, SetMin(Holders(snap, a))), a)

\* The accounts whose topmost record votes for d.
VotersFor(snap, d) ==
    {a \in AccountsOf(snap) :
        /\ Topmost(snap, a).type # "DEADENTRY"
        /\ Topmost(snap, a).dest = d
        /\ Topmost(snap, a).balance >= 1000000000}

RECURSIVE SumOfBalances(_, _)
SumOfBalances(snap, A) ==
    IF A = {} THEN 0
    ELSE Topmost(snap, SetMin(A)).balance + SumOfBalances(snap, A \ {SetMin(A)})

Destinations(snap) ==
    {d \in -2 .. 1 : d # NoDest /\ VotersFor(snap, d) # {}}

\* C13: the tally of loadInflationWinners gives each destination the sum of
\* the balances of the accounts whose topmost record, over the buckets in
\* traversal order, is live or init, names that destination and has a
\* balance of at least 1000000000; an account whose topmost record is a
\* DeadEntry, and the deeper records of every account, add nothing.
C13_TallyShadowing ==
    Tallied =>
        /\ DOMAIN call.voteCount = Destinations(mSnapshot)
        /\ \A d \in DOMAIN call.voteCount :
              call.voteCount[d] = SumOfBalances(mSnapshot, VotersFor(mSnapshot, d))

\* A tally over a bucket list where an account dead at the top would vote
\* in a deeper bucket, another account has two records that would vote, and
\* one destination has the votes of two accounts.
C13_Witness ==
    /\ Tallied
    /\ \E a \in AccountsOf(mSnapshot) :
          /\ Topmost(mSnapshot, a).type = "DEADENTRY"
          /\ \E p \in Holders(mSnapshot, a) :
                /\ RecordOf(BucketAt(mSnapshot, p), a).type # "DEADENTRY"
                /\ RecordOf(BucketAt(mSnapshot, p), a).balance >= 1000000000
                /\ RecordOf(BucketAt(mSnapshot, p), a).dest # NoDest
    /\ \E d \in DOMAIN call.voteCount :
          /\ Cardinality(VotersFor(mSnapshot, d)) = 2
          /\ \E a \in VotersFor(mSnapshot, d) : Cardinality(Holders(mSnapshot, a)) >= 2

\* A call of loadInflationWinners has returned from the sorted branch.
SelectedFromMore ==
    /\ Tallied
    /\ call.phase = "returned"
    /\ Cardinality(DOMAIN call.voteCount) > call.maxWinners

WinnerIds == {call.winners[i].id : i \in DOMAIN call.winners}

Qualified == {d \in DOMAIN call.voteCount : call.voteCount[d] >= call.minBalance}

\* C14: when more destinations have votes than maxWinners, the call returns
\* exactly min(maxWinners, number of destinations with at least minBalance
\* votes) winners, each a destination with its count of at least minBalance,
\* and no destination left out has a strictly higher count than one
\* returned.
C14_Original ==
    SelectedFromMore =>
        /\ Len(call.winners) =
              IF call.maxWinners <= Cardinality(Qualified)
              THEN call.maxWinners ELSE Cardinality(Qualified)
        /\ Cardinality(WinnerIds) = Len(call.winners)
        /\ \A i \in DOMAIN call.winners :
              /\ call.winners[i].id \in Qualified
              /\ call.winners[i].votes = call.voteCount[call.winners[i].id]
        /\ \A d \in DOMAIN call.voteCount \ WinnerIds, i \in DOMAIN call.winners :
              call.voteCount[d] <= call.winners[i].votes

\* The same without a past-the-end read: the sorted map holds maxWinners
\* counts or a count below minBalance.
C14_TiedDestinationLost ==
    /\ SelectedFromMore
    /\ Cardinality(Counts(call.voteCount)) >= call.maxWinners
    /\ Len(call.winners) = call.maxWinners
    /\ \E d \in DOMAIN call.voteCount \ WinnerIds, i \in DOMAIN call.winners :
          call.voteCount[d] > call.winners[i].votes

(***************************************************************************)
(* The thread-role assertions.                                             *)
(***************************************************************************)
\* This step is a call, off the main thread, of one of the two queries of
\* the main thread: the assertion ends it.
AssertedAtEntry ==
    /\ CanBegin
    /\ call'.phase = "aborted"
    /\ call'.op \in {"loadInflationWinners", "loadPoolShareTrustLines"}

\* C15: a call of loadInflationWinners or of
\* loadPoolShareTrustLinesByAccountAndAsset off the main thread aborts
\* before it has any other effect: the held snapshot is the one held before
\* the call and no bucket has been visited.
C15_Original ==
    [][AssertedAtEntry => (mSnapshot' = mSnapshot /\ call'.visited = <<>>)]_vars

\* The part of C15 the trustline query meets, and the part about the
\* buckets both queries meet.
C15_NoBucketRead ==
    [][AssertedAtEntry =>
          /\ call'.visited = <<>>
          /\ call'.op = "loadPoolShareTrustLines" => mSnapshot' = mSnapshot]_vars

\* An aborted call of loadInflationWinners after which the reader holds
\* the snapshot of a ledger published after its construction.
C15_RefreshedThenAborted ==
    /\ call.op = "loadInflationWinners"
    /\ call.phase = "aborted"
    /\ call.visited = <<>>
    /\ mSnapshot.ledgerSeq > 1
    /\ mSnapshot = mCurrentSnapshot

(***************************************************************************)
(* The merge counters of a finished builder.                               *)
(***************************************************************************)
\* A live builder that keeps tombstones has been finalized after at least
\* one put; its puts were in order, or a put would have aborted.
FinalizedTopLevel ==
    /\ bucketT = "LiveBucket"
    /\ out[1].mKeepTombstoneEntries
    /\ pc = "finished"
    /\ Len(puts) >= 1

DistinctIdentities == Cardinality({puts[i].e.key : i \in DOMAIN puts})

\* The meta header the constructor has put, as a number of records.
HeaderPut == IF out[1].mPutMeta THEN 1 ELSE 0

\* C16 as stated: after n puts of data entries with d distinct identities
\* the builder has counted d - 1 actual writes and n buffer updates.
C16_Original ==
    FinalizedTopLevel =>
        /\ mc[1].mOutputIteratorActualWrites = DistinctIdentities - 1
        /\ mc[1].mOutputIteratorBufferUpdates = Len(puts)

\* C16: a live builder that keeps tombstones, fed a sorted sequence of n >= 1
\* data entries with d distinct identities, has counted at finalize d - 1
\* actual writes and n buffer updates for the data entries, and one more of
\* each when its constructor has put the meta header: the header is a
\* buffer update of its own and is flushed by the first data entry.
C16_CountersOfTopLevel ==
    FinalizedTopLevel =>
        /\ mc[1].mOutputIteratorActualWrites = DistinctIdentities - 1 + HeaderPut
        /\ mc[1].mOutputIteratorBufferUpdates = Len(puts) + HeaderPut
        /\ mc[1].mOutputIteratorTombstoneElisions = 0
        /\ mc[1].mOutputIteratorLiveToInitRewrites = 0

\* The input Live(1), Live(1), Live(2) on a builder with a meta header: two
\* actual writes and four buffer updates.
C16_Witness ==
    /\ FinalizedTopLevel
    /\ out[1].mPutMeta
    /\ Len(puts) = 3
    /\ \A i \in 1 .. 3 : puts[i].e.type = "LIVEENTRY"
    /\ puts[1].e.key = 1 /\ puts[2].e.key = 1 /\ puts[3].e.key = 2
    /\ puts[1].e.val # puts[2].e.val
    /\ mc[1].mOutputIteratorActualWrites = 2
    /\ mc[1].mOutputIteratorBufferUpdates = 4

(***************************************************************************)
(* Rejected puts.                                                          *)
(***************************************************************************)
\* Entry e fails the validation of put: a meta entry after the header, or
\* in an archive an entry whose key is not of a Soroban type.
FailsValidation(T, b, e) ==
    \/ e.type \in MetaTypes /\ b.mPutMeta
    \/ T = "HotArchiveBucket" /\ e.type \notin MetaTypes /\ ~isSorobanEntry(e.key)

\* The records of the builder's file, the buffered entry being the record
\* it will become.
Records(b) == IF b.mBuf = NoEntry THEN b.mOut ELSE Append(b.mOut, b.mBuf)

\* C17: a put of an entry that fails validation, a bottom-level tombstone
\* included, throws and leaves the builder (buffered entry, file, hasher,
\* bytes and objects put) and the merge counters as they were; no record of
\* an archive builder, written or buffered, is of a key that is not Soroban.
C17_RejectedPutNoEffect ==
    /\ [](bucketT = "HotArchiveBucket" =>
            \A i \in DOMAIN Records(out[1]) :
                \/ Records(out[1])[i].type \in MetaTypes
                \/ isSorobanEntry(Records(out[1])[i].key))
    /\ [][(PutCalled /\ FailsValidation(bucketT, out[1], last'.e)) =>
             /\ last'.outcome = "threw"
             /\ out' = out
             /\ mc' = mc
             /\ puts' = puts]_vars

\* A put of an ArchiveLive of a classic key has thrown on a bottom-level
\* archive builder that has written a record and buffers another.
C17_Witness ==
    /\ bucketT = "HotArchiveBucket"
    /\ ~out[1].mKeepTombstoneEntries
    /\ last.outcome = "threw"
    /\ last.e = ArchiveLiveE(1)
    /\ Len(out[1].mOut) >= 1
    /\ out[1].mBuf # NoEntry
    /\ out[1].mBuf.type = "HOT_ARCHIVE_ARCHIVED"

(***************************************************************************)
(* Bottom-level tombstones.                                                *)
(***************************************************************************)
\* The effect of an elision: one more elision counted, nothing else changed.
PureDrop ==
    /\ last'.outcome = "elided"
    /\ out' = out
    /\ mc' = [mc EXCEPT ![1].mOutputIteratorTombstoneElisions = @ + 1]

\* C18 as stated: every put of a tombstone on a builder that does not keep
\* tombstones counts one elision and changes nothing else.
C18_Original ==
    [][(PutCalled /\ Dropped(bucketT, out[1], last'.e)) => PureDrop]_vars

\* C18: a put of a tombstone that passes validation, on a builder that does
\* not keep tombstones, counts one elision and leaves the buffered entry,
\* the file, the hasher, the bytes and objects put and the other counters
\* as they were; a tombstone that fails validation throws and counts
\* nothing.
C18_ElisionPureDrop ==
    [][(PutCalled /\ Dropped(bucketT, out[1], last'.e)) =>
          IF Rejected(bucketT, out[1], last'.e)
          THEN last'.outcome = "threw" /\ out' = out /\ mc' = mc
          ELSE PureDrop]_vars

\* A tombstone of the identity of the buffered entry has been dropped, the
\* entry staying buffered behind a written record.
C18_Witness ==
    /\ ~out[1].mKeepTombstoneEntries
    /\ last.outcome = "elided"
    /\ out[1].mBuf # NoEntry
    /\ out[1].mBuf.type \notin MetaTypes
    /\ out[1].mBuf.key = last.e.key
    /\ Len(out[1].mOut) >= 1
    /\ mc[1].mOutputIteratorTombstoneElisions = 1

(***************************************************************************)
(* The traversal of loopAllBuckets.                                        *)
(***************************************************************************)
\* The visitor calls of the first loop of the trustline query: its visitor
\* never returns true, so the loop visits every non-empty bucket.
FirstPass ==
    IF call.op = "loadPoolShareTrustLines" /\ call.loop = "loadKeys"
    THEN Cardinality(NonEmptyUpTo(mSnapshot, 2 * NumLevels))
    ELSE 0

\* The visitor calls of the loop the call is in, or was in last: the
\* positions visited and what the visitor returned.
PassVisited ==
    [i \in 1 .. Len(call.visited) - FirstPass |-> call.visited[FirstPass + i].pos]

PassStops ==
    [i \in 1 .. Len(call.stops) - FirstPass |-> call.stops[FirstPass + i]]

Stopped == Len(PassStops) > 0 /\ PassStops[Len(PassStops)]

\* The keys of the bulk load the call is in.
LoadedKeys ==
    IF call.op = "loadPoolShareTrustLines" THEN call.trustlinesToLoad ELSE call.inKeys

\* Every key of K has a record in a bucket at or above position p.
AllFoundBy(K, p) ==
    \A k \in K : \E q \in Holders(mSnapshot, k) : q <= p

\* C19: loopAllBuckets calls the visitor on the non-empty buckets only, in
\* the order curr, snap of level 0, curr, snap of level 1, ..., each at
\* most once and none skipped, and on no bucket after the one for which
\* the visitor returned true; the visitor of getLedgerEntry returns true
\* at the first bucket with a record of the key, the visitor of a bulk
\* load at the first bucket visited by which every key has been found.
C19_TraversalProtocol ==
    InCall =>
        /\ Len(call.stops) = Len(call.visited)
        /\ \A i \in DOMAIN PassVisited :
              ~BucketAt(mSnapshot, PassVisited[i]).isEmpty
        /\ \A i, j \in DOMAIN PassVisited : i < j => PassVisited[i] < PassVisited[j]
        /\ {PassVisited[i] : i \in DOMAIN PassVisited} =
              NonEmptyUpTo(mSnapshot,
                  IF Stopped THEN PassVisited[Len(PassVisited)]
                  ELSE IF call.phase = "loop" THEN call.pos - 1
                  ELSE 2 * NumLevels)
        /\ \A i \in DOMAIN PassStops : PassStops[i] => i = Len(PassStops)
        /\ Stopped => call.phase # "loop"
        /\ \A i \in 1 .. FirstPass : ~call.stops[i]
        /\ call.loop = "getLedgerEntry" =>
              \A i \in DOMAIN PassStops :
                  PassStops[i] = HoldsKey(BucketAt(mSnapshot, PassVisited[i]), call.k)
        /\ call.loop = "loadKeys" =>
              \A i \in DOMAIN PassStops :
                  PassStops[i] = AllFoundBy(LoadedKeys, PassVisited[i])
        /\ call.loop \in {"trustLineLoop", "countVotes"} =>
              \A i \in DOMAIN PassStops : ~PassStops[i]

\* A bulk load that skipped an empty bucket, went on after a bucket that
\* left a key pending and ended at the bucket that held the last key, a
\* non-empty bucket below it staying unvisited.
C19_Witness ==
    /\ Returned("loadKeysWithLimits")
    /\ BucketAt(mSnapshot, 1).isEmpty
    /\ Len(PassVisited) >= 2
    /\ Stopped
    /\ \E p \in AllPositions(mSnapshot) :
          /\ p > PassVisited[Len(PassVisited)]
          /\ ~BucketAt(mSnapshot, p).isEmpty

(***************************************************************************)
(* The two outcomes of getBucket.                                          *)
(***************************************************************************)
\* This step is a call of getBucket.
GetBucketCalled == pc = "open" /\ last'.outcome = "getBucket"

\* The file is adopted, once, under the hash of its records; it is neither
\* deleted nor noted as an empty merge output.
AdoptedOnce ==
    /\ mgr'[1].adopted = <<[filename |-> out[1].mFilename,
                            hash |-> RecordBytes(out'[1].mOut),
                            mergeKey |-> last'.mergeKey]>>
    /\ mgr'[1].removed = {}
    /\ mgr'[1].emptyNoted = <<>>
    /\ ret'[1] = [empty |-> FALSE, hash |-> RecordBytes(out'[1].mOut)]

\* The file is deleted, the empty merge output noted iff there is a merge
\* key, nothing adopted and the empty bucket returned.
DeletedEmpty ==
    /\ mgr'[1].removed = {out[1].mFilename}
    /\ mgr'[1].emptyNoted =
          (IF last'.mergeKey # NoMergeKey THEN <<last'.mergeKey>> ELSE <<>>)
    /\ mgr'[1].adopted = <<>>
    /\ ret'[1] = EmptyBucket

\* C20: getBucket ends in one of two ways: when the file holds at least one
\* record it is adopted exactly once under the computed hash, and neither
\* deleted nor noted as empty; when it holds none it is deleted, noted as
\* an empty merge output iff a merge key was given, not adopted, and the
\* empty bucket is returned.  In both cases the buffer is empty afterwards
\* and the file is the file of before followed by the entry that was
\* buffered, written once.
C20_FinalizeOutcomes ==
    [][GetBucketCalled =>
          /\ pc' = "finished"
          /\ out'[1].mBuf = NoEntry
          /\ out'[1].mOut = Records(out[1])
          /\ out'[1].mObjectsPut = Len(out'[1].mOut)
          /\ IF Len(out'[1].mOut) >= 1 THEN AdoptedOnce ELSE DeletedEmpty]_vars

\* A finished builder without a header whose only record is the one
\* getBucket flushed; the file was adopted under a merge key.
C20_Witness ==
    /\ Finished
    /\ ~out[1].mPutMeta
    /\ Len(out[1].mOut) = 1
    /\ mc[1].mOutputIteratorActualWrites = 0
    /\ Len(puts) >= 2
    /\ Len(mgr[1].adopted) = 1
    /\ mgr[1].adopted[1].mergeKey = "mk"
    /\ mgr[1].removed = {}

(***************************************************************************)
(* The walk of voteCountSortedByCount.                                     *)
(***************************************************************************)
\* C21: the selection loop of loadInflationWinners never reads iter->first
\* at the end of voteCountSortedByCount, whatever the vote table,
\* maxWinners and minBalance, and the call returns.
C21_Original ==
    Tallied => (~call.pastEnd /\ call.phase = "returned")

\* A call on the main thread whose destinations all have one count, of at
\* least minBalance, and are more than maxWinners: the sorted map holds one
\* element, the loop takes it and reads the end of the map.
C21_ReadPastEnd ==
    /\ Tallied
    /\ call.pastEnd
    /\ Cardinality(DOMAIN call.voteCount) > call.maxWinners
    /\ Cardinality(Counts(call.voteCount)) < call.maxWinners
    /\ \A d \in DOMAIN call.voteCount : call.voteCount[d] >= call.minBalance

(***************************************************************************)
(* The winners returned.                                                   *)
(***************************************************************************)
\* The winners are at most maxWinners, each a destination of the tally,
\* once, with its tallied count of at least minBalance; when the tally has
\* at most maxWinners destinations they are all those of at least
\* minBalance.
WinnersBounded ==
    /\ Len(call.winners) <= call.maxWinners
    /\ Cardinality(WinnerIds) = Len(call.winners)
    /\ \A i \in DOMAIN call.winners :
          /\ call.winners[i].id \in DOMAIN call.voteCount
          /\ call.winners[i].votes = call.voteCount[call.winners[i].id]
          /\ call.winners[i].votes >= call.minBalance
    /\ Cardinality(DOMAIN call.voteCount) <= call.maxWinners =>
          WinnerIds = Qualified

\* C22: for every snapshot, maxWinners and minBalance a returned call of
\* loadInflationWinners gives at most maxWinners winners, each destination
\* once, each count at least minBalance and equal to the tallied votes of
\* its destination, and exactly the destinations of at least minBalance
\* when the tally has at most maxWinners destinations.
C22_Original ==
    (Tallied /\ call.phase = "returned") => WinnersBounded

\* The same for the calls that did not read the end of the sorted map.
C22_BoundedUnlessPastEnd ==
    (Tallied /\ call.phase = "returned" /\ ~call.pastEnd) => WinnersBounded

\* A returned call whose last winner is what the read at the end of the
\* sorted map gave: no destination of the tally.
C22_WinnerFromPastEnd ==
    /\ Tallied
    /\ call.phase = "returned"
    /\ call.pastEnd
    /\ Len(call.winners) >= 2
    /\ call.winners[Len(call.winners)].id \notin DOMAIN call.voteCount

====
